---- MODULE Spec2Model ----
(***************************************************************************)
(* Model of the communication layer of robot-dev-rs                        *)
(* (interface/src/communication.rs): the ROS 2 CDR envelope codec, the     *)
(* joint-state conversions, the two subscription receive loops and         *)
(* publish_joint_command; of the planner of the brain crate                *)
(* (brain/src/lib.rs); and of main with its control loop                   *)
(* (interface/src/main.rs).                                                *)
(*                                                                         *)
(* Representation of machine values:                                       *)
(*   u8     a number in 0..255                                             *)
(*   u32    a record [lo, hi] of two 16-bit limbs (value = lo + 65536*hi), *)
(*          because the checker's integers are 32-bit signed               *)
(*   i32    an integer in -2^31 .. 2^31-1                                  *)
(*   f64    its IEEE-754 image as 8 bytes, most significant byte first     *)
(*   String its UTF-8 bytes                                                *)
(***************************************************************************)
EXTENDS Integers, Sequences, FiniteSets, TLC

\* ------------------------------------------------------------------------
\* Machine values
\* ------------------------------------------------------------------------
Byte == 0..255

Limb == 256 * 256

U32OfNat(n) == [lo |-> n % Limb, hi |-> n \div Limb]

\* u32::from_le_bytes
U32FromLe(b) == [lo |-> b[1] + 256 * b[2], hi |-> b[3] + 256 * b[4]]

\* u32::to_le_bytes
U32ToLe(u) == << u.lo % 256, u.lo \div 256, u.hi % 256, u.hi \div 256 >>

\* i32::from_le_bytes (two's complement)
I32FromLe(b) ==
    LET hi == b[3] + 256 * b[4]
    IN IF hi >= 32768 THEN (b[1] + 256 * b[2]) + Limb * (hi - Limb)
                      ELSE (b[1] + 256 * b[2]) + Limb * hi

\* i32::to_le_bytes (two's complement)
I32ToLe(i) ==
    LET lo == i % Limb
        hi == ((i - lo) \div Limb) % Limb
    IN << lo % 256, lo \div 256, hi % 256, hi \div 256 >>

Reverse(s) == [i \in 1..Len(s) |-> s[Len(s) + 1 - i]]

\* f64::to_le_bytes / f64::from_le_bytes on the MSB-first image
F64ToLe(x) == Reverse(x)
F64FromLe(b) == Reverse(b)

F64Zero == << 0, 0, 0, 0, 0, 0, 0, 0 >>
F64Half == << 63, 224, 0, 0, 0, 0, 0, 0 >>
F64One == << 63, 240, 0, 0, 0, 0, 0, 0 >>
F64Two == << 64, 0, 0, 0, 0, 0, 0, 0 >>
F64NegOne == << 191, 240, 0, 0, 0, 0, 0, 0 >>

Zeros(n) == [i \in 1..n |-> 0]

\* ------------------------------------------------------------------------
\* String::from_utf8: well-formed UTF-8 (Unicode table 3-7)
\* ------------------------------------------------------------------------
IsCont(b) == b >= 128 /\ b <= 191

RECURSIVE Utf8From(_, _)
Utf8From(s, i) ==
    IF i > Len(s) THEN TRUE
    ELSE LET b == s[i]
             has(k) == i + k <= Len(s)
         IN IF b <= 127 THEN Utf8From(s, i + 1)
            ELSE IF b >= 194 /\ b <= 223
                 THEN has(1) /\ IsCont(s[i + 1]) /\ Utf8From(s, i + 2)
            ELSE IF b = 224
                 THEN has(2) /\ s[i + 1] >= 160 /\ s[i + 1] <= 191
                      /\ IsCont(s[i + 2]) /\ Utf8From(s, i + 3)
            ELSE IF (b >= 225 /\ b <= 236) \/ b = 238 \/ b = 239
                 THEN has(2) /\ IsCont(s[i + 1]) /\ IsCont(s[i + 2])
                      /\ Utf8From(s, i + 3)
            ELSE IF b = 237
                 THEN has(2) /\ s[i + 1] >= 128 /\ s[i + 1] <= 159
                      /\ IsCont(s[i + 2]) /\ Utf8From(s, i + 3)
            ELSE IF b = 240
                 THEN has(3) /\ s[i + 1] >= 144 /\ s[i + 1] <= 191
                      /\ IsCont(s[i + 2]) /\ IsCont(s[i + 3])
                      /\ Utf8From(s, i + 4)
            ELSE IF b >= 241 /\ b <= 243
                 THEN has(3) /\ IsCont(s[i + 1]) /\ IsCont(s[i + 2])
                      /\ IsCont(s[i + 3]) /\ Utf8From(s, i + 4)
            ELSE IF b = 244
                 THEN has(3) /\ s[i + 1] >= 128 /\ s[i + 1] <= 143
                      /\ IsCont(s[i + 2]) /\ IsCont(s[i + 3])
                      /\ Utf8From(s, i + 4)
            ELSE FALSE

Utf8Valid(s) == Utf8From(s, 1)

\* ------------------------------------------------------------------------
\* cdr::Deserializer<_, Infinite, LittleEndian> over a byte slice.
\* A read takes the buffer and the number of bytes consumed so far and
\* returns [ok, pos, val]; errors carry the cdr error in err.
\* ------------------------------------------------------------------------
ErrEof == "cdr: failed to fill whole buffer"
ErrUtf8 == "cdr: invalid utf-8 sequence"

RdFail(e) == [ok |-> FALSE, err |-> e]
RdOk(p, v) == [ok |-> TRUE, pos |-> p, val |-> v]

\* Every intermediate result is bound once, as the element of a singleton,
\* so that it is computed once however often it is used.
Let(e, F(_)) == CHOOSE out \in { F(v) : v \in { e } } : TRUE

\* the ? operator: go on with the value of a successful read
AndThen(r, F(_)) == Let(r, LAMBDA v : IF v.ok THEN F(v) ELSE v)

\* Read::read_exact on the remaining slice
ReadExact(buf, pos, n) ==
    IF pos + n <= Len(buf)
    THEN RdOk(pos + n, SubSeq(buf, pos + 1, pos + n))
    ELSE RdFail(ErrEof)

\* variant: no alignment padding is skipped
ReadPaddingNone(buf, pos, a) == RdOk(pos, << >>)

\* Deserializer::read_padding_of::<T>, size_of::<T>() = a
ReadPadding(buf, pos, a) ==
    IF pos % a = 0 THEN RdOk(pos, << >>)
    ELSE ReadExact(buf, pos, a - (pos % a))

ReadAligned(buf, pos, a) ==
    AndThen(ReadPadding(buf, pos, a), LAMBDA p : ReadExact(buf, p.pos, a))

ReadU8(buf, pos) ==
    AndThen(ReadExact(buf, pos, 1), LAMBDA r : RdOk(r.pos, r.val[1]))

ReadU32(buf, pos) ==
    AndThen(ReadAligned(buf, pos, 4), LAMBDA r : RdOk(r.pos, U32FromLe(r.val)))

ReadI32(buf, pos) ==
    AndThen(ReadAligned(buf, pos, 4), LAMBDA r : RdOk(r.pos, I32FromLe(r.val)))

ReadF64(buf, pos) ==
    AndThen(ReadAligned(buf, pos, 8), LAMBDA r : RdOk(r.pos, F64FromLe(r.val)))

\* Deserializer::read_vec: u32 length, then that many bytes.  A length with
\* a non-zero high limb (>= 65536) exceeds every buffer of the model.
ReadVec(buf, pos) ==
    AndThen(ReadU32(buf, pos), LAMBDA n :
        IF n.val.hi > 0 THEN RdFail(ErrEof)
        ELSE ReadExact(buf, n.pos, n.val.lo))

\* v.pop(): the vector without its last byte, if it has one
Popped(v) == IF Len(v) = 0 THEN << >> ELSE SubSeq(v, 1, Len(v) - 1)

\* Deserializer::read_string: read_vec, drop the last byte (the terminator,
\* not inspected), String::from_utf8
ReadString(buf, pos) ==
    AndThen(ReadVec(buf, pos), LAMBDA v :
        IF Utf8Valid(Popped(v.val)) THEN RdOk(v.pos, Popped(v.val))
        ELSE RdFail(ErrUtf8))

\* deserialize_seq for Vec<String> and Vec<f64>: the elements after the u32
\* length, read one by one until the first failure
RECURSIVE ReadStrings(_, _, _, _)
ReadStrings(buf, pos, n, acc) ==
    IF n = 0 THEN RdOk(pos, acc)
    ELSE AndThen(ReadString(buf, pos), LAMBDA r :
             ReadStrings(buf, r.pos, n - 1, Append(acc, r.val)))

RECURSIVE ReadF64s(_, _, _, _)
ReadF64s(buf, pos, n, acc) ==
    IF n = 0 THEN RdOk(pos, acc)
    ELSE AndThen(ReadF64(buf, pos), LAMBDA r :
             ReadF64s(buf, r.pos, n - 1, Append(acc, r.val)))

ReadSeqString(buf, pos) ==
    AndThen(ReadU32(buf, pos), LAMBDA n :
        IF n.val.hi > 0 THEN RdFail(ErrEof)
        ELSE ReadStrings(buf, n.pos, n.val.lo, << >>))

ReadSeqF64(buf, pos) ==
    AndThen(ReadU32(buf, pos), LAMBDA n :
        IF n.val.hi > 0 THEN RdFail(ErrEof)
        ELSE ReadF64s(buf, n.pos, n.val.lo, << >>))

\* std_msgs::Header { stamp: Time { sec: i32, nanosec: u32 }, frame_id }
ReadHeader(buf, pos) ==
    AndThen(ReadI32(buf, pos), LAMBDA s :
    AndThen(ReadU32(buf, s.pos), LAMBDA n :
    AndThen(ReadString(buf, n.pos), LAMBDA f :
        RdOk(f.pos, [stamp |-> [sec |-> s.val, nanosec |-> n.val],
                     frame_id |-> f.val]))))

\* #[derive(Deserialize)] struct JointState: the fields in declaration order
DeserializeJointState(buf) ==
    AndThen(ReadHeader(buf, 0), LAMBDA h :
    AndThen(ReadSeqString(buf, h.pos), LAMBDA nm :
    AndThen(ReadSeqF64(buf, nm.pos), LAMBDA p :
    AndThen(ReadSeqF64(buf, p.pos), LAMBDA v :
    AndThen(ReadSeqF64(buf, v.pos), LAMBDA e :
        RdOk(e.pos, [header |-> h.val, name |-> nm.val,
                     position |-> p.val, velocity |-> v.val,
                     effort |-> e.val]))))))

\* sensor_msgs::Image { header, height, width, encoding, is_bigendian,
\* step, data }
DeserializeImage(buf) ==
    AndThen(ReadHeader(buf, 0), LAMBDA h :
    AndThen(ReadU32(buf, h.pos), LAMBDA ht :
    AndThen(ReadU32(buf, ht.pos), LAMBDA w :
    AndThen(ReadString(buf, w.pos), LAMBDA en :
    AndThen(ReadU8(buf, en.pos), LAMBDA be :
    AndThen(ReadU32(buf, be.pos), LAMBDA st :
    AndThen(ReadVec(buf, st.pos), LAMBDA d :
        RdOk(d.pos, [header |-> h.val, height |-> ht.val,
                     width |-> w.val, encoding |-> en.val,
                     is_bigendian |-> be.val, step |-> st.val,
                     data |-> d.val]))))))))

\* ------------------------------------------------------------------------
\* cdr::Serializer<_, LittleEndian>: the output so far is the writer, and
\* its length is the serializer's position (reset after the encapsulation)
\* ------------------------------------------------------------------------
\* Serializer::write_padding_of::<T>, size_of::<T>() = a
WritePadding(out, a) ==
    Let(out, LAMBDA o :
        IF Len(o) % a = 0 THEN o ELSE o \o Zeros(a - (Len(o) % a)))

WriteU8(out, b) == Append(out, b)
WriteU32(out, u) == WritePadding(out, 4) \o U32ToLe(u)
WriteI32(out, i) == WritePadding(out, 4) \o I32ToLe(i)
WriteF64(out, x) == WritePadding(out, 8) \o F64ToLe(x)

\* serialize_str: u32 length counting the terminator, the bytes, a NUL
WriteString(out, s) == Append(WriteU32(out, U32OfNat(Len(s) + 1)) \o s, 0)

\* serialize_bytes / a sequence of u8
WriteVec(out, v) == WriteU32(out, U32OfNat(Len(v))) \o v

RECURSIVE WriteStrings(_, _, _)
WriteStrings(out, ss, i) ==
    IF i > Len(ss) THEN out
    ELSE Let(WriteString(out, ss[i]), LAMBDA o : WriteStrings(o, ss, i + 1))

RECURSIVE WriteF64s(_, _, _)
WriteF64s(out, xs, i) ==
    IF i > Len(xs) THEN out
    ELSE Let(WriteF64(out, xs[i]), LAMBDA o : WriteF64s(o, xs, i + 1))

WriteSeqString(out, ss) == WriteStrings(WriteU32(out, U32OfNat(Len(ss))), ss, 1)
WriteSeqF64(out, xs) == WriteF64s(WriteU32(out, U32OfNat(Len(xs))), xs, 1)

WriteHeader(out, h) ==
    WriteString(WriteU32(WriteI32(out, h.stamp.sec), h.stamp.nanosec),
                h.frame_id)

\* #[derive(Serialize)] struct JointState: the fields in declaration order
SerializeJointState(msg) ==
    WriteSeqF64(
      WriteSeqF64(
        WriteSeqF64(
          WriteSeqString(WriteHeader(<< >>, msg.header), msg.name),
          msg.position),
        msg.velocity),
      msg.effort)

SerializeImage(img) ==
    WriteVec(
      WriteU32(
        WriteU8(
          WriteString(
            WriteU32(WriteU32(WriteHeader(<< >>, img.header), img.height),
                     img.width),
            img.encoding),
          img.is_bigendian),
        img.step),
      img.data)

\* CdrLe: Encapsulation::id() = [0, 1], Encapsulation::option() = [0, 0]
CdrLeEncapsulation == << 0, 1, 0, 0 >>

\* cdr::serialize::<_, _, CdrLe>(&msg, Infinite): the representation
\* identifier and options, then the value with the position reset
cdr_serialize_JointState(msg) == CdrLeEncapsulation \o SerializeJointState(msg)

\* ------------------------------------------------------------------------
\* interface/src/communication.rs
\* ------------------------------------------------------------------------
ROS2_CDR_HEADER_LE == << 0, 1, 0, 0 >>

ErrTooShort == "Payload too short for ROS 2 CDR header"
ErrHeader == "Invalid ROS 2 CDR header"

Err(e) == [ok |-> FALSE, err |-> e]
Ok(m) == [ok |-> TRUE, msg |-> m]

Body(payload) == SubSeq(payload, 5, Len(payload))

\* variant: the header is compared (as a prefix) before the length is checked
deserialize_JointState_HeaderFirst(payload) ==
    IF \E k \in 1..4 : k > Len(payload) \/ payload[k] # ROS2_CDR_HEADER_LE[k]
    THEN Err(ErrHeader)
    ELSE IF Len(payload) < 4 THEN Err(ErrTooShort)
    ELSE Let(DeserializeJointState(Body(payload)),
             LAMBDA r : IF r.ok THEN Ok(r.val) ELSE Err(r.err))

\* variant: only the representation identifier (two bytes) is compared
deserialize_JointState_IdOnly(payload) ==
    IF Len(payload) < 4 THEN Err(ErrTooShort)
    ELSE IF SubSeq(payload, 1, 2) # SubSeq(ROS2_CDR_HEADER_LE, 1, 2)
         THEN Err(ErrHeader)
    ELSE Let(DeserializeJointState(Body(payload)),
             LAMBDA r : IF r.ok THEN Ok(r.val) ELSE Err(r.err))

deserialize_ros_payload_JointState(payload) ==
    IF Len(payload) < 4 THEN Err(ErrTooShort)
    ELSE IF SubSeq(payload, 1, 4) # ROS2_CDR_HEADER_LE THEN Err(ErrHeader)
    ELSE Let(DeserializeJointState(Body(payload)),
             LAMBDA r : IF r.ok THEN Ok(r.val) ELSE Err(r.err))

deserialize_ros_payload_Image(payload) ==
    IF Len(payload) < 4 THEN Err(ErrTooShort)
    ELSE IF SubSeq(payload, 1, 4) # ROS2_CDR_HEADER_LE THEN Err(ErrHeader)
    ELSE Let(DeserializeImage(Body(payload)),
             LAMBDA r : IF r.ok THEN Ok(r.val) ELSE Err(r.err))

\* JointState::default()
JointStateDefault ==
    [header |-> [stamp |-> [sec |-> 0, nanosec |-> U32OfNat(0)],
                 frame_id |-> << >>],
     name |-> << >>, position |-> << >>, velocity |-> << >>,
     effort |-> << >>]

\* A wall clock reading: before_epoch when SystemTime::now() is earlier
\* than UNIX_EPOCH, else the whole seconds as four 16-bit limbs (u64, least
\* significant first) and the sub-second nanoseconds.
DurationZero == [secs |-> << 0, 0, 0, 0 >>, nanos |-> 0]

\* SystemTime::now().duration_since(UNIX_EPOCH).unwrap_or_default()
DurationSinceEpoch(clock) ==
    IF clock.before_epoch THEN DurationZero
    ELSE [secs |-> clock.secs, nanos |-> clock.nanos]

\* variant: seconds that do not fit are clamped to i32::MAX
SecsSaturated(secs) ==
    IF secs[2] >= 32768 \/ secs[3] # 0 \/ secs[4] # 0
    THEN 32767 * Limb + (Limb - 1)
    ELSE secs[1] + Limb * secs[2]

\* now.as_secs() as i32: the low 32 bits, two's complement
SecsAsI32(secs) ==
    IF secs[2] >= 32768 THEN secs[1] + Limb * (secs[2] - Limb)
                        ELSE secs[1] + Limb * secs[2]

RECURSIVE Decimal(_)
Decimal(n) ==
    IF n < 10 THEN << 48 + n >> ELSE Append(Decimal(n \div 10), 48 + (n % 10))

StrJoint == << 106, 111, 105, 110, 116, 95 >>
StrRobotBase == << 114, 111, 98, 111, 116, 95, 98, 97, 115, 101 >>

\* variant: the name carries the 0-based index
JointNameFromZero(i) == StrJoint \o Decimal(i)

\* format!("joint_{}", i + 1), i the 0-based index
JointName(i) == StrJoint \o Decimal(i + 1)

convert_to_ros_joint_state(joints, clock) ==
    LET now == DurationSinceEpoch(clock)
    IN [header |-> [stamp |-> [sec |-> SecsAsI32(now.secs),
                               nanosec |-> U32OfNat(now.nanos)],
                    frame_id |-> StrRobotBase],
        name |-> [i \in 1..Len(joints) |-> JointName(i - 1)],
        position |-> [i \in 1..Len(joints) |-> joints[i].angle],
        velocity |-> [i \in 1..Len(joints) |-> joints[i].velocity],
        effort |-> [i \in 1..Len(joints) |-> joints[i].effort]]

\* variant: the three arrays are zipped, so the shortest one decides
convert_from_zipped(msg) ==
    LET n == IF Len(msg.velocity) < Len(msg.position)
             THEN Len(msg.velocity) ELSE Len(msg.position)
        m == IF Len(msg.effort) < n THEN Len(msg.effort) ELSE n
    IN [i \in 1..m |-> [angle |-> msg.position[i],
                        velocity |-> msg.velocity[i],
                        effort |-> msg.effort[i]]]

convert_from_ros_joint_state(msg) ==
    [i \in 1..Len(msg.position) |->
        [angle |-> msg.position[i],
         velocity |-> IF i <= Len(msg.velocity) THEN msg.velocity[i]
                      ELSE F64Zero,
         effort |-> IF i <= Len(msg.effort) THEN msg.effort[i]
                    ELSE F64Zero]]

\* publish_joint_command, up to the put: the payload handed to the session
JointCommandPayload(joints, clock) ==
    ROS2_CDR_HEADER_LE
        \o cdr_serialize_JointState(convert_to_ros_joint_state(joints, clock))

\* CommunicationLayer::new: the three topic keys
joint_state_key == "rt/robot/joint_states"
joint_command_key == "rt/robot/joint_commands"
image_key == "rt/camera/image_raw"

\* ------------------------------------------------------------------------
\* Bounds of the model
\* ------------------------------------------------------------------------
\* events from outside the layer: subscribe calls that spawn a task,
\* samples the transport delivers, publish_joint_command calls
MaxEvents == 4
\* joints in a published sequence
MaxJoints == 2
\* waypoints added to the planner by its callers
MaxPlanned == 3
\* waypoints in the planner when the control loop is entered
MaxWaypoints == 2

\* ------------------------------------------------------------------------
\* Inputs
\* ------------------------------------------------------------------------
Joint(a, v, e) == [angle |-> a, velocity |-> v, effort |-> e]

JointVals == { Joint(F64One, F64Half, F64Zero),
               Joint(F64Zero, F64Zero, F64Zero),
               Joint(F64NegOne, F64Two, F64One) }

RECURSIVE SeqsUpTo(_, _)
SeqsUpTo(S, n) ==
    IF n = 0 THEN { << >> }
    ELSE LET shorter == SeqsUpTo(S, n - 1)
         IN shorter \cup { Append(q, x) : q \in shorter, x \in S }

JointSeqs == SeqsUpTo(JointVals, MaxJoints)

Clock(before, secs, nanos) ==
    [before_epoch |-> before, secs |-> secs, nanos |-> nanos]

\* the epoch itself, a whole second, an ordinary instant, a clock set
\* before 1970, an instant after 2038-01-19 (seconds >= 2^31) and one
\* after 2106-02-07 (seconds >= 2^32)
ClockOrdinary == Clock(FALSE, << 5, 26000, 0, 0 >>, 123456789)

Clocks == { Clock(FALSE, << 0, 0, 0, 0 >>, 0),
            Clock(FALSE, << 5, 26000, 0, 0 >>, 0),
            ClockOrdinary,
            Clock(FALSE, << 0, 0, 0, 0 >>, 4),
            Clock(TRUE, << 0, 0, 0, 0 >>, 0),
            Clock(FALSE, << 7, 32768, 0, 0 >>, 999999999),
            Clock(FALSE, << 5, 0, 1, 0 >>, 1) }

StampOf(sec, nanos) == [sec |-> sec, nanosec |-> U32OfNat(nanos)]

\* joint-state messages as another ROS 2 node sends them; the first is the
\* lenient shape (velocity and effort shorter than position)
WireLenient ==
    [header |-> [stamp |-> StampOf(12, 500), frame_id |-> StrRobotBase],
     name |-> << JointName(0), JointName(1) >>,
     position |-> << F64One, F64Two >>,
     velocity |-> << F64Half >>,
     effort |-> << >>]

WireOne ==
    [header |-> [stamp |-> StampOf(-1, 0), frame_id |-> << >>],
     name |-> << JointName(0) >>,
     position |-> << F64NegOne >>,
     velocity |-> << F64Two >>,
     effort |-> << F64One >>]

StrRgb8 == << 114, 103, 98, 56 >>

WireImage ==
    [header |-> [stamp |-> StampOf(12, 500), frame_id |-> << 99 >>],
     height |-> U32OfNat(1), width |-> U32OfNat(2), encoding |-> StrRgb8,
     is_bigendian |-> 0, step |-> U32OfNat(6),
     data |-> << 1, 2, 3, 4, 5, 255 >>]

Envelope(body) == ROS2_CDR_HEADER_LE \o body

\* samples arriving on the joint-state key: two valid ones and one under
\* the big-endian header
JointStateSamples ==
    { Envelope(SerializeJointState(WireLenient)),
      Envelope(SerializeJointState(WireOne)),
      << 0, 0, 0, 0, 1, 2 >> }

\* samples arriving on the image key: a valid one and a truncated one
ImageSamples ==
    { Envelope(SerializeImage(WireImage)),
      Envelope(SubSeq(SerializeImage(WireImage), 1, 20)) }

\* a sequence long enough for a two-digit joint name
LongJointSeq == [i \in 1..11 |-> Joint(F64One, F64Half, F64Zero)]

\* the sequences handed to publish_joint_command
PublishSeqs == JointSeqs \cup { LongJointSeq }

\* wire messages handed to convert_from_ros_joint_state: velocity and effort
\* shorter than, as long as and longer than position, names of any number
WireMessages ==
    { [header |-> [stamp |-> StampOf(12, 500), frame_id |-> StrRobotBase],
       name |-> n, position |-> p, velocity |-> v, effort |-> e] :
          n \in { << >>, << JointName(0) >>,
                  << StrRobotBase, StrRobotBase, StrRobotBase >> },
          p \in SeqsUpTo({ F64One, F64NegOne }, MaxJoints),
          v \in SeqsUpTo({ F64Half, F64NegOne }, MaxJoints + 1),
          e \in SeqsUpTo({ F64Two, F64Zero }, MaxJoints + 1) }

\* the sequences the control loop publishes
PublishInputs == { << Joint(F64One, F64Half, F64Zero) >> }

Samples(key) == IF key = joint_state_key THEN JointStateSamples ELSE ImageSamples

\* ------------------------------------------------------------------------
\* State
\* ------------------------------------------------------------------------
VARIABLES
    sessionOpen, \* the zenoh session is open (its channels have senders)
    subs,        \* the spawned receive tasks, in spawn order
    events,      \* subscribe calls, arrivals and publish calls so far
    pubPc,       \* publish_joint_command: "idle" or "putting" (awaiting put)
    pubPayload,  \* the payload of the put in progress
    sent,        \* what the session has put: [key, payload], in order
    ret,         \* the result the last publish_joint_command returned
    keys,        \* the layer's joint_state_key, joint_command_key, image_key
    endpoints,   \* what has been declared on the session, in order
    mainPc,      \* main: the statement it is at or suspended in
    mainRet,     \* main: "running", or the Result it returned
    trajectory,  \* brain.planner.trajectory, front first
    planned,     \* every waypoint added to the planner, in order
    popped,      \* every waypoint next_step returned, in order
    lastStep,    \* what the last next_step returned
    attempts,    \* the control loop's publish_joint_command calls, in order
    reports,     \* the lines main wrote to stderr, in order
    cKind,       \* codec harness: "raw" or "publish" input
    cPhase,      \* codec harness: "input", "built", "decoded"
    cPayload,    \* codec harness: the payload under decode
    cJoints,     \* codec harness: the joint sequence to publish
    cClock,      \* codec harness: the wall clock of the publish
    cTarget,     \* codec harness: the target type of the decode
    cResult,     \* codec harness: what deserialize_ros_payload returned
    cBack,       \* codec harness: convert_from_ros_joint_state of the result
    cMsg         \* codec harness: the joint wire message built or converted

sysVars == << sessionOpen, subs, events, pubPc, pubPayload, sent, ret, keys,
              endpoints >>
mainVars == << mainPc, mainRet, trajectory, planned, popped, lastStep,
               attempts, reports >>
codecVars == << cKind, cPhase, cPayload, cJoints, cClock, cTarget, cResult,
                cBack, cMsg >>
vars == << sessionOpen, subs, events, pubPc, pubPayload, sent, ret, keys,
           endpoints, mainPc, mainRet, trajectory, planned, popped, lastStep,
           attempts, reports, cKind, cPhase, cPayload, cJoints, cClock,
           cTarget, cResult, cBack, cMsg >>

NoPayload == << >>
NoResult == [ok |-> FALSE, err |-> "none"]

\* ------------------------------------------------------------------------
\* A receive task: tokio::spawn(async move { while let Ok(sample) = ... })
\*   key       the key its subscriber was declared on
\*   enq       every payload the transport queued for it, in arrival order
\*   chan      samples queued in the subscriber's channel, oldest first
\*   pc        "Awaiting" (suspended in recv_async), "Decoding" (a sample
\*             in hand: passed through within one step, the task does not
\*             yield between recv_async and the callback), "Dispatch"
\*             (inside the callback), "Terminated"
\*   cur       the payload of the sample in hand
\*   received  every payload taken from the channel, in order
\*   delivered every argument the callback was invoked with, in order
\*   errors    every line written by the Err arm, in order
\*   running   callback invocations begun and not yet returned
\* ------------------------------------------------------------------------
NewTask(key) ==
    [key |-> key, enq |-> << >>, chan |-> << >>, pc |-> "Awaiting",
     cur |-> NoPayload, received |-> << >>, delivered |-> << >>,
     errors |-> << >>, running |-> 0]

\* the key fields of a constructed CommunicationLayer
BoundKeys ==
    [joint_state_key |-> joint_state_key,
     joint_command_key |-> joint_command_key,
     image_key |-> image_key]

\* the key fields before CommunicationLayer::new has returned a layer
NoKeys ==
    [joint_state_key |-> "", joint_command_key |-> "", image_key |-> ""]

\* variant: a subscriber is declared once per key and reused afterwards
DeclareOncePerKey(eps, key) ==
    IF \E k \in 1..Len(eps) : eps[k].key = key THEN eps
    ELSE Append(eps, [kind |-> "subscriber", key |-> key])

\* session.declare_subscriber(key) succeeded
DeclareSubscriber(eps, key) ==
    Append(eps, [kind |-> "subscriber", key |-> key])

\* the subscriber is moved into a spawned task
SpawnTask(ss, key) == Append(ss, NewTask(key))

\* the transport hands one sample to every subscriber of the key
Deliver(ss, key, p) ==
    [i \in 1..Len(ss) |->
        IF ss[i].key = key
        THEN [ss[i] EXCEPT !.chan = Append(@, p), !.enq = Append(@, p)]
        ELSE ss[i]]

\* variant: the newest queued sample is taken first
TakeNewest(ss, i) ==
    LET n == Len(ss[i].chan)
    IN [ss EXCEPT ![i] = [ss[i] EXCEPT !.cur = ss[i].chan[n],
                                       !.chan = SubSeq(ss[i].chan, 1, n - 1),
                                       !.received = Append(@, ss[i].chan[n]),
                                       !.pc = "Decoding"]]

\* recv_async() returned Ok(sample): the oldest queued sample
TakeSample(ss, i) ==
    [ss EXCEPT ![i] = [ss[i] EXCEPT !.cur = Head(ss[i].chan),
                                    !.chan = Tail(ss[i].chan),
                                    !.received = Append(@, Head(ss[i].chan)),
                                    !.pc = "Decoding"]]

\* recv_async() returned Err: the while-let ends and the task finishes
EndLoop(ss, i) == [ss EXCEPT ![i] = [ss[i] EXCEPT !.pc = "Terminated"]]

\* variant: the callback is started detached and the loop goes on
InvokeDetached(ss, i, arg) ==
    [ss EXCEPT ![i] = [ss[i] EXCEPT !.delivered = Append(@, arg),
                                    !.running = @ + 1,
                                    !.cur = NoPayload,
                                    !.pc = "Awaiting"]]

\* the Ok arm: callback(arg) is entered
InvokeCallback(ss, i, arg) ==
    [ss EXCEPT ![i] = [ss[i] EXCEPT !.delivered = Append(@, arg),
                                    !.running = @ + 1,
                                    !.cur = NoPayload,
                                    !.pc = "Dispatch"]]

\* variant: the Err arm also hands a default value to the callback
ReportAndCall(ss, i, what, e) ==
    [ss EXCEPT ![i] = [ss[i] EXCEPT !.errors = Append(@, << what, e >>),
                                    !.delivered = Append(@, << >>),
                                    !.cur = NoPayload,
                                    !.pc = "Awaiting"]]

\* variant: the Err arm leaves the loop
ReportAndBreak(ss, i, what, e) ==
    [ss EXCEPT ![i] = [ss[i] EXCEPT !.errors = Append(@, << what, e >>),
                                    !.cur = NoPayload,
                                    !.pc = "Terminated"]]

\* variant: a failure flag shared by the tasks stops the other loops
ReportShared(ss, i, what, e) ==
    [j \in 1..Len(ss) |->
        IF j = i
        THEN [ss[i] EXCEPT !.errors = Append(@, << what, e >>),
                           !.cur = NoPayload,
                           !.pc = "Awaiting"]
        ELSE [ss[j] EXCEPT !.pc = IF @ = "Awaiting" THEN "Terminated" ELSE @]]

\* the Err arm: eprintln!, then the loop awaits the next sample
ReportFailure(ss, i, what, e) ==
    [ss EXCEPT ![i] = [ss[i] EXCEPT !.errors = Append(@, << what, e >>),
                                    !.cur = NoPayload,
                                    !.pc = "Awaiting"]]

\* variant: one sample is handled (if let instead of while let)
ReturnAndFinish(ss, i) ==
    [ss EXCEPT ![i] = [ss[i] EXCEPT !.running = @ - 1,
                                    !.pc = "Terminated"]]

\* the callback returned: the loop awaits the next sample
ReturnFromCallback(ss, i) ==
    [ss EXCEPT ![i] = [ss[i] EXCEPT !.running = @ - 1,
                                    !.pc = IF @ = "Dispatch" THEN "Awaiting"
                                           ELSE @]]

\* the loop body of subscribe_joint_state
JointStateBody(ss, i) ==
    Let(deserialize_ros_payload_JointState(ss[i].cur), LAMBDA r :
        IF r.ok
        THEN InvokeCallback(ss, i, convert_from_ros_joint_state(r.msg))
        ELSE ReportFailure(ss, i, "Failed to process JointState", r.err))

\* the loop body of subscribe_camera_image
CameraImageBody(ss, i) ==
    Let(deserialize_ros_payload_Image(ss[i].cur), LAMBDA r :
        IF r.ok
        THEN InvokeCallback(ss, i, r.msg)
        ELSE ReportFailure(ss, i, "Failed to process Image", r.err))

\* ------------------------------------------------------------------------
\* Initial state: the layer is constructed, nothing subscribed or published
\* ------------------------------------------------------------------------
CodecIdle ==
    /\ cKind = "raw"
    /\ cPhase = "decoded"
    /\ cPayload = NoPayload
    /\ cJoints = << >>
    /\ cClock = ClockOrdinary
    /\ cTarget = "none"
    /\ cResult = NoResult
    /\ cBack = << >>
    /\ cMsg = JointStateDefault

SysInit ==
    /\ sessionOpen = TRUE
    /\ subs = << >>
    /\ events = 0
    /\ pubPc = "idle"
    /\ pubPayload = NoPayload
    /\ sent = << >>
    /\ ret = "none"
    /\ keys = BoundKeys
    /\ endpoints = << >>

\* no execute_next_step call has returned a waypoint (val is a filler)
NoStep == [some |-> FALSE, val |-> Joint(F64Zero, F64Zero, F64Zero)]

\* main is not part of the run: the layer is driven through its operations
MainIdle ==
    /\ mainPc = "none"
    /\ mainRet = "none"
    /\ trajectory = << >>
    /\ planned = << >>
    /\ popped = << >>
    /\ lastStep = NoStep
    /\ attempts = << >>
    /\ reports = << >>

Init == SysInit /\ MainIdle /\ CodecIdle

\* ------------------------------------------------------------------------
\* Actions of the running system
\* ------------------------------------------------------------------------
\* subscribe_joint_state(callback): declare_subscriber fails and the error
\* is returned, or the task is spawned and Ok(()) is returned
subscribe_joint_state ==
    /\ events < MaxEvents
    /\ \E declared \in { sessionOpen, FALSE } :
          IF declared
          THEN /\ endpoints' = DeclareSubscriber(endpoints, keys.joint_state_key)
               /\ subs' = SpawnTask(subs, keys.joint_state_key)
               /\ events' = events + 1
          ELSE UNCHANGED << endpoints, subs, events >>
    /\ UNCHANGED << sessionOpen, pubPc, pubPayload, sent, ret, keys >>
    /\ UNCHANGED mainVars
    /\ UNCHANGED codecVars

subscribe_camera_image ==
    /\ events < MaxEvents
    /\ \E declared \in { sessionOpen, FALSE } :
          IF declared
          THEN /\ endpoints' = DeclareSubscriber(endpoints, keys.image_key)
               /\ subs' = SpawnTask(subs, keys.image_key)
               /\ events' = events + 1
          ELSE UNCHANGED << endpoints, subs, events >>
    /\ UNCHANGED << sessionOpen, pubPc, pubPayload, sent, ret, keys >>
    /\ UNCHANGED mainVars
    /\ UNCHANGED codecVars

\* a sample is published on an inbound key by some other node
Arrive ==
    /\ sessionOpen
    /\ events < MaxEvents
    /\ \E key \in { joint_state_key, image_key } :
          \E p \in Samples(key) : subs' = Deliver(subs, key, p)
    /\ events' = events + 1
    /\ UNCHANGED << sessionOpen, pubPc, pubPayload, sent, ret, keys, endpoints >>
    /\ UNCHANGED mainVars
    /\ UNCHANGED codecVars

\* the session is closed: every subscriber's channel loses its sender
SessionClosed ==
    /\ sessionOpen
    /\ sessionOpen' = FALSE
    /\ UNCHANGED << subs, events, pubPc, pubPayload, sent, ret, keys, endpoints >>
    /\ UNCHANGED mainVars
    /\ UNCHANGED codecVars

\* the body of the while-let for the sample in hand
LoopBody(ss, i) ==
    IF ss[i].key = joint_state_key THEN JointStateBody(ss, i)
    ELSE CameraImageBody(ss, i)

\* recv_async().await completes with a sample, and the task runs on up to
\* its next suspension: into the callback, or back to recv_async
Recv(i) ==
    /\ subs[i].pc = "Awaiting"
    /\ subs[i].chan # << >>
    /\ subs' = Let(TakeSample(subs, i), LAMBDA ss : LoopBody(ss, i))
    /\ UNCHANGED << sessionOpen, events, pubPc, pubPayload, sent, ret, keys,
                    endpoints >>
    /\ UNCHANGED mainVars
    /\ UNCHANGED codecVars

\* recv_async().await completes with Err: closed and drained
RecvErr(i) ==
    /\ subs[i].pc = "Awaiting"
    /\ subs[i].chan = << >>
    /\ ~sessionOpen
    /\ subs' = EndLoop(subs, i)
    /\ UNCHANGED << sessionOpen, events, pubPc, pubPayload, sent, ret, keys,
                    endpoints >>
    /\ UNCHANGED mainVars
    /\ UNCHANGED codecVars

\* the application's callback returns
CallbackReturns(i) ==
    /\ subs[i].running > 0
    /\ subs' = ReturnFromCallback(subs, i)
    /\ UNCHANGED << sessionOpen, events, pubPc, pubPayload, sent, ret, keys,
                    endpoints >>
    /\ UNCHANGED mainVars
    /\ UNCHANGED codecVars

\* publish_joint_command(joints) up to session.put(..).await
PublishStart ==
    /\ pubPc = "idle"
    /\ events < MaxEvents
    /\ \E joints \in PublishInputs :
          pubPayload' = JointCommandPayload(joints, ClockOrdinary)
    /\ pubPc' = "putting"
    /\ events' = events + 1
    /\ UNCHANGED << sessionOpen, subs, sent, ret, keys, endpoints >>
    /\ UNCHANGED mainVars
    /\ UNCHANGED codecVars

\* the put completes: the payload is on the joint-command key, or the
\* transport error is returned
PublishDone ==
    /\ pubPc = "putting"
    /\ \E put_ok \in { sessionOpen, FALSE } :
          IF put_ok
          THEN /\ sent' = Append(sent, [key |-> keys.joint_command_key,
                                        payload |-> pubPayload])
               /\ ret' = "Ok"
          ELSE sent' = sent /\ ret' = "Err"
    /\ pubPc' = "idle"
    /\ pubPayload' = NoPayload
    /\ UNCHANGED << sessionOpen, subs, events, keys, endpoints >>
    /\ UNCHANGED mainVars
    /\ UNCHANGED codecVars

TaskStep(i) == Recv(i) \/ RecvErr(i) \/ CallbackReturns(i)

Next ==
    \/ subscribe_joint_state
    \/ subscribe_camera_image
    \/ Arrive
    \/ SessionClosed
    \/ \E i \in 1..Len(subs) : Recv(i)
    \/ \E i \in 1..Len(subs) : RecvErr(i)
    \/ \E i \in 1..Len(subs) : CallbackReturns(i)
    \/ PublishStart
    \/ PublishDone

Spec == Init /\ [][Next]_vars

\* The runtime polls every ready task, the callbacks of the application
\* return, and the transport completes a put.
FairSpec ==
    /\ Spec
    /\ \A i \in 1..MaxEvents : WF_vars(i <= Len(subs) /\ TaskStep(i))
    /\ WF_vars(PublishDone)

\* ------------------------------------------------------------------------
\* The planner of the brain crate, on its own: any sequence of plan_motion
\* and execute_next_step calls on one RobotBrain
\* ------------------------------------------------------------------------
F64Target == << 63, 249, 30, 184, 81, 235, 133, 31 >>

\* JointState { angle: 1.57, ..Default::default() }, the target of main
Target == Joint(F64Target, F64Zero, F64Zero)

\* the target of main, the target of test_planner and one more
Waypoints == { Target,
               Joint(F64One, F64Zero, F64Zero),
               Joint(F64NegOne, F64Two, F64One) }

\* Planner::add_waypoint: trajectory.push_back(state)
add_waypoint(q, state) == Append(q, state)

\* Option<JointState>
None == NoStep
Some(v) == [some |-> TRUE, val |-> v]

\* variant: the newest waypoint is taken (pop_back)
next_step_newest(q) ==
    IF q = << >> THEN [ret |-> None, rest |-> q]
    ELSE [ret |-> Some(q[Len(q)]), rest |-> SubSeq(q, 1, Len(q) - 1)]

\* variant: the front waypoint is returned and left in the queue
next_step_peek(q) ==
    IF q = << >> THEN [ret |-> None, rest |-> q]
    ELSE [ret |-> Some(Head(q)), rest |-> q]

\* Planner::next_step: trajectory.pop_front(); ret is what is returned,
\* rest the trajectory left behind
next_step(q) ==
    IF q = << >> THEN [ret |-> None, rest |-> q]
    ELSE [ret |-> Some(Head(q)), rest |-> Tail(q)]

\* RobotBrain::plan_motion
plan_motion(q, target) == add_waypoint(q, target)

\* RobotBrain::execute_next_step
execute_next_step(q) == next_step(q)

\* the bookkeeping of one execute_next_step call
Stepped(r) ==
    /\ trajectory' = r.rest
    /\ lastStep' = r.ret
    /\ popped' = IF r.ret.some THEN Append(popped, r.ret.val) ELSE popped

\* brain.plan_motion(target)
PlanMotion ==
    /\ Len(planned) < MaxPlanned
    /\ \E target \in Waypoints :
          /\ trajectory' = plan_motion(trajectory, target)
          /\ planned' = Append(planned, target)
    /\ UNCHANGED << mainPc, mainRet, popped, lastStep, attempts, reports >>
    /\ UNCHANGED sysVars
    /\ UNCHANGED codecVars

\* brain.execute_next_step()
ExecuteNextStep ==
    /\ Stepped(execute_next_step(trajectory))
    /\ UNCHANGED << mainPc, mainRet, planned, attempts, reports >>
    /\ UNCHANGED sysVars
    /\ UNCHANGED codecVars

PlannerNext == PlanMotion \/ ExecuteNextStep

\* RobotBrain::new(): an empty trajectory
PlannerSpec == Init /\ [][PlannerNext]_vars

\* ------------------------------------------------------------------------
\* main: construction, the two subscriptions, one planned target and the
\* control loop.  mainPc is the statement main is at:
\*   "new"                       awaiting CommunicationLayer::new()
\*   "subscribe_joint_state"     awaiting comms.subscribe_joint_state(..)
\*   "subscribe_camera_image"    awaiting comms.subscribe_camera_image(..)
\*   "plan"                      before brain.plan_motion(target)
\*   "loop"                      at the top of the control loop
\*   "put"                       awaiting the put of publish_joint_command
\*   "sleep"                     awaiting sleep(..)
\*   "returned"                  main has returned and the process is over
\* ------------------------------------------------------------------------
ErrInit == "Failed to initialize communication layer"
ErrPublish == "Failed to publish command"

\* variant: a failed construction is reported and main goes on
AfterNewDegraded(opened) == "subscribe_joint_state"

\* match CommunicationLayer::new().await { Ok(c) => .., Err(e) => return }
AfterNew(opened) == IF opened THEN "subscribe_joint_state" ELSE "returned"

\* variant: the publish result is propagated with `?`
AfterPublishFatal(result) == IF result = "Err" THEN "returned" ELSE "sleep"

\* if let Err(e) = publish_joint_command(..).await { eprintln!(..) }, then
\* sleep(100 ms), whatever the result
AfterPublish(result) == "sleep"

MainInit ==
    /\ sessionOpen = FALSE
    /\ subs = << >>
    /\ events = 0
    /\ pubPc = "idle"
    /\ pubPayload = NoPayload
    /\ sent = << >>
    /\ ret = "none"
    /\ keys = NoKeys
    /\ endpoints = << >>
    /\ mainPc = "new"
    /\ mainRet = "running"
    /\ trajectory = << >>
    /\ planned = << >>
    /\ popped = << >>
    /\ lastStep = NoStep
    /\ attempts = << >>
    /\ reports = << >>
    /\ CodecIdle

\* CommunicationLayer::new().await and the match on its result
main_new ==
    /\ mainPc = "new"
    /\ \E opened \in BOOLEAN :
          /\ sessionOpen' = opened
          /\ keys' = IF opened THEN BoundKeys ELSE NoKeys
          /\ reports' = IF opened THEN reports ELSE Append(reports, ErrInit)
          /\ mainPc' = AfterNew(opened)
          /\ mainRet' = IF AfterNew(opened) = "returned" THEN "Err"
                        ELSE "running"
    /\ UNCHANGED << subs, events, pubPc, pubPayload, sent, ret, endpoints >>
    /\ UNCHANGED << trajectory, planned, popped, lastStep, attempts >>
    /\ UNCHANGED codecVars

\* comms.subscribe_joint_state(..).await?
main_subscribe_joint_state ==
    /\ mainPc = "subscribe_joint_state"
    /\ \E declared \in { sessionOpen, FALSE } :
          IF declared
          THEN /\ endpoints' = DeclareSubscriber(endpoints, keys.joint_state_key)
               /\ subs' = SpawnTask(subs, keys.joint_state_key)
               /\ events' = events + 1
               /\ mainPc' = "subscribe_camera_image"
               /\ mainRet' = mainRet
          ELSE /\ UNCHANGED << endpoints, subs, events >>
               /\ mainPc' = "returned"
               /\ mainRet' = "Err"
    /\ UNCHANGED << sessionOpen, pubPc, pubPayload, sent, ret, keys >>
    /\ UNCHANGED << trajectory, planned, popped, lastStep, attempts, reports >>
    /\ UNCHANGED codecVars

\* comms.subscribe_camera_image(..).await?
main_subscribe_camera_image ==
    /\ mainPc = "subscribe_camera_image"
    /\ \E declared \in { sessionOpen, FALSE } :
          IF declared
          THEN /\ endpoints' = DeclareSubscriber(endpoints, keys.image_key)
               /\ subs' = SpawnTask(subs, keys.image_key)
               /\ events' = events + 1
               /\ mainPc' = "plan"
               /\ mainRet' = mainRet
          ELSE /\ UNCHANGED << endpoints, subs, events >>
               /\ mainPc' = "returned"
               /\ mainRet' = "Err"
    /\ UNCHANGED << sessionOpen, pubPc, pubPayload, sent, ret, keys >>
    /\ UNCHANGED << trajectory, planned, popped, lastStep, attempts, reports >>
    /\ UNCHANGED codecVars

\* let mut brain = RobotBrain::new(); brain.plan_motion(target)
main_plan ==
    /\ mainPc = "plan"
    /\ trajectory' = plan_motion(trajectory, Target)
    /\ planned' = Append(planned, Target)
    /\ mainPc' = "loop"
    /\ UNCHANGED << mainRet, popped, lastStep, attempts, reports >>
    /\ UNCHANGED sysVars
    /\ UNCHANGED codecVars

\* one pass of the control loop up to its await: a waypoint is taken and
\* publish_joint_command(&vec![state]) runs up to the put, or there is none
\* and the loop goes to sleep(1 s)
ControlIteration ==
    /\ mainPc = "loop"
    /\ LET r == execute_next_step(trajectory)
       IN /\ Stepped(r)
          /\ IF r.ret.some
             THEN /\ pubPayload'
                       = JointCommandPayload(<< r.ret.val >>, ClockOrdinary)
                  /\ pubPc' = "putting"
                  /\ attempts' = Append(attempts, [command |-> << r.ret.val >>,
                                                   result |-> "pending"])
                  /\ mainPc' = "put"
             ELSE /\ UNCHANGED << pubPayload, pubPc, attempts >>
                  /\ mainPc' = "sleep"
    /\ UNCHANGED << sessionOpen, subs, events, sent, ret, keys, endpoints >>
    /\ UNCHANGED << mainRet, planned, reports >>
    /\ UNCHANGED codecVars

\* variant: the put completes only while no callback is running
ControlPutDoneWhenQuiet ==
    /\ mainPc = "put"
    /\ pubPc = "putting"
    /\ \A i \in 1..Len(subs) : subs[i].running = 0
    /\ \E put_ok \in { sessionOpen, FALSE } :
          /\ sent' = IF put_ok
                     THEN Append(sent, [key |-> keys.joint_command_key,
                                        payload |-> pubPayload])
                     ELSE sent
          /\ ret' = IF put_ok THEN "Ok" ELSE "Err"
          /\ attempts' = [attempts EXCEPT ![Len(attempts)].result = ret']
          /\ reports' = IF put_ok THEN reports ELSE Append(reports, ErrPublish)
          /\ mainPc' = AfterPublish(ret')
          /\ mainRet' = IF AfterPublish(ret') = "returned" THEN "Err"
                        ELSE mainRet
    /\ pubPc' = "idle"
    /\ pubPayload' = NoPayload
    /\ UNCHANGED << sessionOpen, subs, events, keys, endpoints >>
    /\ UNCHANGED << trajectory, planned, popped, lastStep >>
    /\ UNCHANGED codecVars

\* the put of publish_joint_command completes, the result is returned to
\* the loop, an error is reported, and the loop goes to sleep(100 ms)
ControlPutDone ==
    /\ mainPc = "put"
    /\ pubPc = "putting"
    /\ \E put_ok \in { sessionOpen, FALSE } :
          /\ sent' = IF put_ok
                     THEN Append(sent, [key |-> keys.joint_command_key,
                                        payload |-> pubPayload])
                     ELSE sent
          /\ ret' = IF put_ok THEN "Ok" ELSE "Err"
          /\ attempts' = [attempts EXCEPT ![Len(attempts)].result = ret']
          /\ reports' = IF put_ok THEN reports ELSE Append(reports, ErrPublish)
          /\ mainPc' = AfterPublish(ret')
          /\ mainRet' = IF AfterPublish(ret') = "returned" THEN "Err"
                        ELSE mainRet
    /\ pubPc' = "idle"
    /\ pubPayload' = NoPayload
    /\ UNCHANGED << sessionOpen, subs, events, keys, endpoints >>
    /\ UNCHANGED << trajectory, planned, popped, lastStep >>
    /\ UNCHANGED codecVars

\* sleep(..).await completes and the loop starts its next pass
ControlWake ==
    /\ mainPc = "sleep"
    /\ mainPc' = "loop"
    /\ UNCHANGED << mainRet, trajectory, planned, popped, lastStep, attempts,
                    reports >>
    /\ UNCHANGED sysVars
    /\ UNCHANGED codecVars

\* the process is alive: main has not returned
Alive == mainPc # "returned"

MainNext ==
    \/ main_new
    \/ main_subscribe_joint_state
    \/ main_subscribe_camera_image
    \/ main_plan
    \/ ControlIteration
    \/ ControlPutDone
    \/ ControlWake
    \/ Alive /\ Arrive
    \/ Alive /\ SessionClosed
    \/ \E i \in 1..Len(subs) : Alive /\ Recv(i)
    \/ \E i \in 1..Len(subs) : Alive /\ RecvErr(i)
    \/ \E i \in 1..Len(subs) : Alive /\ CallbackReturns(i)

MainSpec == MainInit /\ [][MainNext]_vars

\* ------------------------------------------------------------------------
\* The control loop on its own: it is entered with both subscriptions
\* running and the planner holding what has been planned (main plans one
\* target; any trajectory of up to MaxWaypoints is taken here).  Of the
\* events of a run one is left: one sample arrives while the loop runs.
\* ------------------------------------------------------------------------
\* the target of main and the target of test_planner
ControlWaypoints == { Target, Joint(F64One, F64Zero, F64Zero) }

ControlInit ==
    /\ sessionOpen = TRUE
    /\ keys = BoundKeys
    /\ endpoints = DeclareSubscriber(DeclareSubscriber(<< >>, joint_state_key),
                                     image_key)
    /\ subs = SpawnTask(SpawnTask(<< >>, joint_state_key), image_key)
    /\ events = MaxEvents - 1
    /\ pubPc = "idle"
    /\ pubPayload = NoPayload
    /\ sent = << >>
    /\ ret = "none"
    /\ mainPc = "loop"
    /\ mainRet = "running"
    /\ trajectory \in SeqsUpTo(ControlWaypoints, MaxWaypoints)
    /\ planned = trajectory
    /\ popped = << >>
    /\ lastStep = NoStep
    /\ attempts = << >>
    /\ reports = << >>
    /\ CodecIdle

ControlStep == ControlIteration \/ ControlPutDone \/ ControlWake

ControlNext ==
    \/ ControlIteration
    \/ ControlPutDone
    \/ ControlWake
    \/ Arrive
    \/ SessionClosed
    \/ \E i \in 1..Len(subs) : Recv(i)
    \/ \E i \in 1..Len(subs) : RecvErr(i)
    \/ \E i \in 1..Len(subs) : CallbackReturns(i)

\* The runtime polls main and every ready task, the transport completes a
\* put, the timer fires, and the callbacks of the application return.
ControlSpec ==
    /\ ControlInit
    /\ [][ControlNext]_vars
    /\ WF_vars(ControlStep)
    /\ \A i \in 1..2 : WF_vars(TaskStep(i))

\* ------------------------------------------------------------------------
\* The codec on its own: one payload, raw or built by publish_joint_command,
\* is decoded once
\* ------------------------------------------------------------------------
ShortAlphabet == { 0, 1, 255 }

ShortPayloads == SeqsUpTo(ShortAlphabet, 3)

Headers == { << a, b, c, d >> : a \in { 0, 1 }, b \in { 0, 1 },
                               c \in { 0, 1 }, d \in { 0, 1 } }

WireBadFrame ==
    [JointStateDefault EXCEPT !.header.frame_id = << 104, 255 >>]

\* a body with empty strings (length 0), non-zero padding before the f64
BodyOddPadding ==
    << 0, 0, 0, 0, 0, 0, 0, 0, 0, 0, 0, 0, 0, 0, 0, 0, 1, 0, 0, 0,
       9, 9, 9, 9, 0, 0, 0, 0, 0, 0, 240, 63, 0, 0, 0, 0, 0, 0, 0, 0 >>

\* a body whose frame_id announces 65536 bytes
BodyHugeLength ==
    << 0, 0, 0, 0, 0, 0, 0, 0, 0, 0, 1, 0, 0, 0, 0, 0, 0, 0, 0, 0,
       0, 0, 0, 0, 0, 0, 0, 0, 0, 0, 0, 0 >>

Bodies ==
    { SerializeJointState(WireLenient),
      SerializeJointState(WireOne),
      SerializeJointState(JointStateDefault),
      SerializeJointState(WireBadFrame),
      cdr_serialize_JointState(JointStateDefault),
      SerializeImage(WireImage),
      BodyOddPadding,
      BodyHugeLength }

RawPayloads ==
    ShortPayloads
        \cup UNION { { h \o SubSeq(b, 1, k) : h \in Headers, k \in 0..Len(b) } :
                     b \in Bodies }

CodecInit ==
    /\ SysInit
    /\ MainIdle
    /\ cPhase = "input"
    /\ cTarget = "none"
    /\ cResult = NoResult
    /\ cBack = << >>
    /\ \/ /\ cKind = "raw"
          /\ cPayload \in RawPayloads
          /\ cJoints = << >>
          /\ cClock = ClockOrdinary
          /\ cMsg = JointStateDefault
       \/ /\ cKind = "publish"
          /\ cPayload = NoPayload
          /\ cJoints \in PublishSeqs
          /\ cClock \in Clocks
          /\ cMsg = JointStateDefault
       \/ /\ cKind = "wire"
          /\ cPayload = NoPayload
          /\ cJoints = << >>
          /\ cClock = ClockOrdinary
          /\ cMsg \in WireMessages

\* publish_joint_command builds its payload
BuildPayload ==
    /\ cKind = "publish"
    /\ cPhase = "input"
    /\ cMsg' = convert_to_ros_joint_state(cJoints, cClock)
    /\ cPayload' = JointCommandPayload(cJoints, cClock)
    /\ cPhase' = "built"
    /\ UNCHANGED << cKind, cJoints, cClock, cTarget, cResult, cBack >>
    /\ UNCHANGED sysVars
    /\ UNCHANGED mainVars

\* convert_from_ros_joint_state(&msg) of a wire message
ConvertFromWire ==
    /\ cKind = "wire"
    /\ cPhase = "input"
    /\ cBack' = convert_from_ros_joint_state(cMsg)
    /\ cPhase' = "converted"
    /\ UNCHANGED << cKind, cPayload, cJoints, cClock, cTarget, cResult, cMsg >>
    /\ UNCHANGED sysVars
    /\ UNCHANGED mainVars

Decodable == cPhase = (IF cKind = "raw" THEN "input" ELSE "built")

\* deserialize_ros_payload::<JointState>, then convert_from_ros_joint_state
DecodeJointState ==
    /\ Decodable
    /\ cResult' = deserialize_ros_payload_JointState(cPayload)
    /\ cBack' = IF cResult'.ok THEN convert_from_ros_joint_state(cResult'.msg)
                ELSE << >>
    /\ cTarget' = "JointState"
    /\ cPhase' = "decoded"
    /\ UNCHANGED << cKind, cPayload, cJoints, cClock, cMsg >>
    /\ UNCHANGED sysVars
    /\ UNCHANGED mainVars

\* deserialize_ros_payload::<Image>
DecodeImage ==
    /\ Decodable
    /\ cKind = "raw"
    /\ cResult' = deserialize_ros_payload_Image(cPayload)
    /\ cTarget' = "Image"
    /\ cPhase' = "decoded"
    /\ UNCHANGED << cKind, cPayload, cJoints, cClock, cBack, cMsg >>
    /\ UNCHANGED sysVars
    /\ UNCHANGED mainVars

CodecNext ==
    \/ BuildPayload
    \/ ConvertFromWire
    \/ DecodeJointState
    \/ DecodeImage

CodecSpec == CodecInit /\ [][CodecNext]_vars

Decoded == cPhase = "decoded" /\ cTarget # "none"

\* ------------------------------------------------------------------------
\* The CDR layout of a body, stated as spans: a field that starts at offset
\* s ends at offset e (offsets count bytes from the start of the body)
\* ------------------------------------------------------------------------
AlignUp(off, a) == off + ((a - (off % a)) % a)

HasCount(b, s) == AlignUp(s, 4) + 4 <= Len(b)
CountAt(b, s) == U32FromLe(SubSeq(b, AlignUp(s, 4) + 1, AlignUp(s, 4) + 4))

BytesSpan(b, s, e) ==
    /\ HasCount(b, s)
    /\ CountAt(b, s).hi = 0
    /\ e = AlignUp(s, 4) + 4 + CountAt(b, s).lo
    /\ e <= Len(b)

StringSpan(b, s, e) ==
    /\ BytesSpan(b, s, e)
    /\ Utf8Valid(SubSeq(b, AlignUp(s, 4) + 5, e - 1))

F64SeqSpan(b, s, e) ==
    /\ HasCount(b, s)
    /\ CountAt(b, s).hi = 0
    /\ e = IF CountAt(b, s).lo = 0 THEN AlignUp(s, 4) + 4
           ELSE AlignUp(AlignUp(s, 4) + 4, 8) + 8 * CountAt(b, s).lo
    /\ e <= Len(b)

RECURSIVE StringsSpan(_, _, _, _)
StringsSpan(b, s, n, e) ==
    IF n = 0 THEN e = s
    ELSE \E m \in s..Len(b) : StringSpan(b, s, m) /\ StringsSpan(b, m, n - 1, e)

StringSeqSpan(b, s, e) ==
    /\ HasCount(b, s)
    /\ CountAt(b, s).hi = 0
    /\ StringsSpan(b, AlignUp(s, 4) + 4, CountAt(b, s).lo, e)

\* sec and nanosec take the first 8 bytes, frame_id follows
HeaderSpan(b, e) == 8 <= Len(b) /\ StringSpan(b, 8, e)

WellFormedJointState(b) ==
    \E e0 \in 0..Len(b) :
       /\ HeaderSpan(b, e0)
       /\ \E e1 \in e0..Len(b) :
             /\ StringSeqSpan(b, e0, e1)
             /\ \E e2 \in e1..Len(b) :
                   /\ F64SeqSpan(b, e1, e2)
                   /\ \E e3 \in e2..Len(b) :
                         /\ F64SeqSpan(b, e2, e3)
                         /\ \E e4 \in e3..Len(b) : F64SeqSpan(b, e3, e4)

WellFormedImage(b) ==
    \E e0 \in 0..Len(b) :
       /\ HeaderSpan(b, e0)
       /\ AlignUp(e0, 4) + 8 <= Len(b)
       /\ \E e1 \in e0..Len(b) :
             /\ StringSpan(b, AlignUp(e0, 4) + 8, e1)
             /\ e1 + 1 <= Len(b)
             /\ AlignUp(e1 + 1, 4) + 4 <= Len(b)
             /\ \E e2 \in e1..Len(b) : BytesSpan(b, AlignUp(e1 + 1, 4) + 4, e2)

WellFormedBody(target, b) ==
    IF target = "JointState" THEN WellFormedJointState(b)
    ELSE WellFormedImage(b)

HeaderAccepted(p) == Len(p) >= 4 /\ SubSeq(p, 1, 4) = << 0, 1, 0, 0 >>

BodyDecodeErrors == { ErrEof, ErrUtf8 }

\* ------------------------------------------------------------------------
\* Claims about the codec (under CodecSpec)
\* ------------------------------------------------------------------------
\* C3: every payload of length 0..3, whatever its bytes (a proper prefix of
\* the header included), fails with "Payload too short for ROS 2 CDR
\* header", never with a header mismatch.
C3_ShortPayloadIsTooShort ==
    (Decoded /\ Len(cPayload) < 4) => cResult = Err(ErrTooShort)

C3_Witness ==
    /\ Decoded
    /\ cTarget = "JointState"
    /\ cPayload = << 0, 1, 0 >>
    /\ cResult = Err(ErrTooShort)

\* C4: every payload of length >= 4 whose first four bytes are not
\* 00 01 00 00 fails with "Invalid ROS 2 CDR header", whatever follows, so
\* the body is never deserialized.
C4_OtherHeaderIsMismatch ==
    (Decoded /\ Len(cPayload) >= 4 /\ ~HeaderAccepted(cPayload))
        => cResult = Err(ErrHeader)

C4_Witness ==
    /\ Decoded
    /\ cTarget = "JointState"
    /\ cPayload = << 0, 0, 0, 0 >> \o SerializeJointState(WireOne)
    /\ cResult = Err(ErrHeader)

\* C5: decode returns a message exactly when the payload has length >= 4,
\* starts with 00 01 00 00 and the rest is a well-formed body of the target
\* type; a valid header over a malformed body (the empty body of a joint
\* state included) gives the body-decode error and no message.
C5_MessageIffWellFormed ==
    Decoded =>
        /\ cResult.ok <=> (HeaderAccepted(cPayload)
                             /\ WellFormedBody(cTarget, Body(cPayload)))
        /\ (HeaderAccepted(cPayload)
              /\ ~WellFormedBody(cTarget, Body(cPayload)))
             => (~cResult.ok /\ cResult.err \in BodyDecodeErrors)
        /\ (cTarget = "JointState" /\ cPayload = Envelope(<< >>))
             => (~cResult.ok /\ cResult.err \in BodyDecodeErrors)

C5_Witness ==
    /\ Decoded
    /\ cTarget = "JointState"
    /\ cPayload = Envelope(SerializeJointState(WireLenient))
    /\ cResult = Ok(WireLenient)

\* C10: the payload built by publish_joint_command is accepted by
\* deserialize_ros_payload, and convert_from_ros_joint_state of the decoded
\* message gives back the published angles, velocities and efforts.
C10_PublishRoundTrip ==
    (Decoded /\ cKind = "publish") =>
        /\ cResult.ok
        /\ Len(cBack) = Len(cJoints)
        /\ \A i \in 1..Len(cJoints) :
              /\ cBack[i].angle = cJoints[i].angle
              /\ cBack[i].velocity = cJoints[i].velocity
              /\ cBack[i].effort = cJoints[i].effort

\* ------------------------------------------------------------------------
\* Claims about the conversions (under CodecSpec)
\* ------------------------------------------------------------------------
\* the joints a wire message stands for: one per position, velocity and
\* effort taken where present and 0.0 (all bytes zero) where absent
StandsFor(joints, msg) ==
    /\ Len(joints) = Len(msg.position)
    /\ \A i \in 1..Len(msg.position) :
          /\ joints[i].angle = msg.position[i]
          /\ joints[i].velocity
                = (IF i <= Len(msg.velocity) THEN msg.velocity[i]
                   ELSE << 0, 0, 0, 0, 0, 0, 0, 0 >>)
          /\ joints[i].effort
                = (IF i <= Len(msg.effort) THEN msg.effort[i]
                   ELSE << 0, 0, 0, 0, 0, 0, 0, 0 >>)

Converted11 == cKind = "wire" /\ cPhase = "converted"

\* C11: convert_from_ros_joint_state of any wire message, handed over
\* directly or just decoded, has one joint per position, with velocity and
\* effort taken where present and 0.0 otherwise; names and surplus velocity
\* or effort entries do not show in the result.
C11_ConvertFromLenient ==
    /\ Converted11 => StandsFor(cBack, cMsg)
    /\ (Decoded /\ cTarget = "JointState" /\ cResult.ok)
          => StandsFor(cBack, cResult.msg)

C11_Witness ==
    /\ Converted11
    /\ cMsg.position = << F64One, F64NegOne >>
    /\ cMsg.velocity = << F64Half >>
    /\ cMsg.effort = << F64Two, F64Zero, F64Two >>
    /\ Len(cMsg.name) = 3
    /\ cBack = << Joint(F64One, F64Half, F64Two),
                  Joint(F64NegOne, F64Zero, F64Zero) >>

\* the number a string of decimal digits without leading zero denotes,
\* -1 when it is not one
RECURSIVE DigitsValue(_)
DigitsValue(d) ==
    IF d = << >> THEN -1
    ELSE IF \E k \in 1..Len(d) : d[k] < 48 \/ d[k] > 57 THEN -1
    ELSE IF Len(d) > 1 /\ d[1] = 48 THEN -1
    ELSE IF Len(d) = 1 THEN d[1] - 48
    ELSE 10 * DigitsValue(SubSeq(d, 1, Len(d) - 1)) + (d[Len(d)] - 48)

\* name is "joint_<k>"
IsJointName(name, k) ==
    /\ Len(name) > 6
    /\ SubSeq(name, 1, 6) = << 106, 111, 105, 110, 116, 95 >>
    /\ DigitsValue(SubSeq(name, 7, Len(name))) = k

Built == cKind = "publish" /\ cPhase \in { "built", "decoded" }

\* C12: the wire message built from N joints has N names, positions,
\* velocities and efforts; the k-th name is joint_k (k from 1) and the k-th
\* position, velocity and effort are those of the k-th joint.
C12_ConvertToIndexAligned ==
    Built =>
        /\ Len(cMsg.name) = Len(cJoints)
        /\ Len(cMsg.position) = Len(cJoints)
        /\ Len(cMsg.velocity) = Len(cJoints)
        /\ Len(cMsg.effort) = Len(cJoints)
        /\ \A k \in 1..Len(cJoints) :
              /\ IsJointName(cMsg.name[k], k)
              /\ cMsg.position[k] = cJoints[k].angle
              /\ cMsg.velocity[k] = cJoints[k].velocity
              /\ cMsg.effort[k] = cJoints[k].effort

C12_Witness ==
    /\ Built
    /\ Len(cJoints) = 11
    /\ cMsg.name[1] = << 106, 111, 105, 110, 116, 95, 49 >>
    /\ cMsg.name[11] = << 106, 111, 105, 110, 116, 95, 49, 49 >>
    /\ cMsg.position[11] = F64One

\* the whole seconds of a clock reading are below 2^31
FitsI32(secs) == secs[2] < 32768 /\ secs[3] = 0 /\ secs[4] = 0

NanosOf(stamp) == stamp.nanosec.lo + Limb * stamp.nanosec.hi

\* C19 as stated: whenever the clock is at or after the epoch, the seconds
\* field is the number of whole seconds since the epoch and the nanoseconds
\* field the sub-second remainder.
C19_StampIsElapsedTime ==
    (Built /\ ~cClock.before_epoch) =>
        /\ FitsI32(cClock.secs)
        /\ cMsg.header.stamp.sec = cClock.secs[1] + Limb * cClock.secs[2]
        /\ NanosOf(cMsg.header.stamp) = cClock.nanos
        /\ cClock.nanos < 1000000000

\* C19 amended: at or after the epoch the nanoseconds field is the
\* sub-second remainder; the seconds field is the number of whole seconds
\* while that is below 2^31, and from 2^31 on it is the low 32 bits of that
\* number read as a two's-complement integer.
C19_StampIsLow32Bits ==
    (Built /\ ~cClock.before_epoch) =>
        /\ NanosOf(cMsg.header.stamp) = cClock.nanos
        /\ cClock.nanos < 1000000000
        /\ FitsI32(cClock.secs)
              => cMsg.header.stamp.sec
                    = cClock.secs[1] + Limb * cClock.secs[2]
        /\ I32ToLe(cMsg.header.stamp.sec)
              = << cClock.secs[1] % 256, cClock.secs[1] \div 256,
                   cClock.secs[2] % 256, cClock.secs[2] \div 256 >>

C19_Witness ==
    /\ Built
    /\ cClock = Clock(FALSE, << 7, 32768, 0, 0 >>, 999999999)
    /\ cMsg.header.stamp.sec = (7 - 32767 * Limb) - Limb
    /\ NanosOf(cMsg.header.stamp) = 999999999

\* ------------------------------------------------------------------------
\* Claims about the receive loops (under Spec and FairSpec)
\* ------------------------------------------------------------------------
Tasks == 1..Len(subs)

\* the samples of each key that deserialize_ros_payload accepts, and what
\* the callback of a subscription gets for each of them
ValidJointStateSamples ==
    { p \in JointStateSamples : deserialize_ros_payload_JointState(p).ok }

ValidImageSamples ==
    { p \in ImageSamples : deserialize_ros_payload_Image(p).ok }

JointStateArgs ==
    [p \in ValidJointStateSamples |->
        convert_from_ros_joint_state(deserialize_ros_payload_JointState(p).msg)]

ImageArgs ==
    [p \in ValidImageSamples |-> deserialize_ros_payload_Image(p).msg]

DecodesOk(key, p) ==
    IF key = joint_state_key THEN p \in ValidJointStateSamples
    ELSE p \in ValidImageSamples

Converted(key, p) ==
    IF key = joint_state_key THEN JointStateArgs[p] ELSE ImageArgs[p]

\* the payloads of a task whose match has been executed
Processed(t) == t.received

ValidOf(key, ps) == SelectSeq(ps, LAMBDA p : DecodesOk(key, p))

\* the i-th task, or a task that has nothing queued when there is none yet
TaskAt(i) == IF i <= Len(subs) THEN subs[i] ELSE NewTask("none")

\* valid payloads queued so far for the i-th task
ValidQueued(i) == Len(ValidOf(TaskAt(i).key, TaskAt(i).enq))

\* C1: a decode failure sends the loop back to awaiting, and under fair
\* scheduling every valid payload queued for a subscription, whatever
\* malformed payloads surround it, is delivered to the callback.
C1_MalformedNeverTerminates ==
    /\ [][\A i \in Tasks :
             Len(subs'[i].errors) > Len(subs[i].errors)
                => subs'[i].pc = "Awaiting"]_vars
    /\ \A i \in 1..MaxEvents : []<>(Len(TaskAt(i).delivered) = ValidQueued(i))

C1_Witness ==
    \E i \in Tasks :
       /\ Len(subs[i].enq) = 2
       /\ ~DecodesOk(subs[i].key, subs[i].enq[1])
       /\ DecodesOk(subs[i].key, subs[i].enq[2])
       /\ Len(subs[i].errors) = 1
       /\ subs[i].delivered = << Converted(subs[i].key, subs[i].enq[2]) >>

\* C2: for each subscription the number of callback invocations equals the
\* number of payloads received so far that decoded successfully.
C2_OneCallbackPerDecoded ==
    \A i \in Tasks :
       Len(subs[i].delivered)
          = Len(ValidOf(subs[i].key, Processed(subs[i])))

C2_Witness ==
    \E i \in Tasks :
       /\ Len(subs[i].received) = 2
       /\ subs[i].pc = "Awaiting"
       /\ Len(subs[i].delivered) = 1
       /\ Len(subs[i].errors) = 1

\* C6: a loop becomes Terminated only from awaiting, with its channel
\* closed and drained, and a Terminated loop never changes again.
C6_TerminatedOnlyByClose ==
    [][\A i \in Tasks :
          /\ (subs[i].pc # "Terminated" /\ subs'[i].pc = "Terminated")
                => /\ subs[i].pc = "Awaiting"
                   /\ subs[i].chan = << >>
                   /\ ~sessionOpen
                   /\ subs'[i] = [subs[i] EXCEPT !.pc = "Terminated"]
          /\ subs[i].pc = "Terminated" => subs'[i] = subs[i]]_vars

C6_Witness ==
    \E i \in Tasks :
       /\ subs[i].pc = "Terminated"
       /\ Len(subs[i].errors) = 1
       /\ Len(subs[i].delivered) = 1

\* C7: a subscription takes its payloads in arrival order, takes the next
\* one only after the previous one is fully handled, and its callback gets
\* the successfully decoded ones in that order.
C7_ReceiptOrder ==
    /\ [](\A i \in Tasks :
             /\ subs[i].received \o subs[i].chan = subs[i].enq
             /\ subs[i].delivered
                   = [k \in 1..Len(ValidOf(subs[i].key, Processed(subs[i]))) |->
                        Converted(subs[i].key,
                                  ValidOf(subs[i].key, Processed(subs[i]))[k])])
    /\ [][\A i \in Tasks :
             Len(subs'[i].received) > Len(subs[i].received)
                => /\ subs[i].pc = "Awaiting"
                   /\ subs[i].running = 0
                   /\ Len(subs'[i].received) = Len(subs[i].received) + 1]_vars

C7_Witness ==
    \E i \in Tasks :
       /\ Len(subs[i].enq) = 2
       /\ subs[i].enq[1] # subs[i].enq[2]
       /\ DecodesOk(subs[i].key, subs[i].enq[1])
       /\ DecodesOk(subs[i].key, subs[i].enq[2])
       /\ subs[i].delivered = << Converted(subs[i].key, subs[i].enq[1]),
                                 Converted(subs[i].key, subs[i].enq[2]) >>

\* C8 as stated: for each inbound topic at most one callback invocation is
\* in progress at any time.
RunningOn(key) == { i \in Tasks : subs[i].key = key /\ subs[i].running > 0 }

C8_OneCallbackPerTopic ==
    \A key \in { joint_state_key, image_key } :
       Cardinality(RunningOn(key)) <= 1

\* C8 amended: each subscribe call has its own single loop, so at most one
\* invocation of the callback of one subscription is in progress at any
\* time, also while a publish is in progress.
C8_OneCallbackPerSubscription ==
    \A i \in Tasks :
       /\ subs[i].running <= 1
       /\ subs[i].running = 1 <=> subs[i].pc = "Dispatch"

C8_Witness ==
    \E i \in Tasks :
       /\ subs[i].running = 1
       /\ subs[i].chan # << >>
       /\ pubPc = "putting"

\* C9: a step in which one subscription reports a decode failure changes
\* no other subscription, nor the publisher; under fair scheduling every
\* valid payload queued on one topic is delivered whatever failed on the
\* other topic, and a publish in progress completes.
C9_Independence ==
    /\ [][\A i \in Tasks :
             Len(subs'[i].errors) > Len(subs[i].errors)
                => /\ \A j \in Tasks : j # i => subs'[j] = subs[j]
                   /\ UNCHANGED << sessionOpen, pubPc, pubPayload, sent,
                                   ret >>]_vars
    /\ []<>(\A j \in Tasks :
                (\E i \in Tasks : /\ subs[i].key # subs[j].key
                                   /\ subs[i].errors # << >>)
                   => Len(subs[j].delivered) = ValidQueued(j))
    /\ []<>(pubPc = "idle")

C9_Witness ==
    \E i \in Tasks : \E j \in Tasks :
       /\ subs[i].key = image_key
       /\ subs[j].key = joint_state_key
       /\ Len(subs[i].errors) = 1
       /\ Len(subs[j].delivered) = 1
       /\ subs[j].pc = "Awaiting"

\* ------------------------------------------------------------------------
\* Claims about publishing and the bindings (under Spec)
\* ------------------------------------------------------------------------
\* the envelope of the wire message of a published sequence: the header
\* 00 01 00 00, then the CDR body of the message
IsEnvelopeOfCommand(payload) ==
    /\ Len(payload) >= 4
    /\ SubSeq(payload, 1, 4) = << 0, 1, 0, 0 >>
    /\ \E joints \in PublishInputs :
          Body(payload)
             = SerializeJointState(convert_to_ros_joint_state(joints,
                                                               ClockOrdinary))

\* C13: everything publish_joint_command has handed to the transport went
\* to the joint-command key and is the 4-byte header 00 01 00 00 followed
\* by the serialized body of the message.
C13_SentIsEnvelopeOnCommandKey ==
    \A k \in 1..Len(sent) :
       /\ sent[k].key = joint_command_key
       /\ IsEnvelopeOfCommand(sent[k].payload)

\* C16 as stated: once the layer is constructed, no operation declares an
\* endpoint on the session or changes one of the three keys.
C16_NothingDeclaredAfterNew ==
    [][endpoints' = endpoints /\ keys' = keys]_vars

InboundKeys == { joint_state_key, image_key }

\* C16 amended: the three keys never change; publishing declares nothing;
\* every subscribe call that succeeds declares exactly one new subscriber,
\* on the unchanged joint-state or camera-image key, for the task it spawns.
C16_KeysFixedSubscribersOnDemand ==
    /\ [](keys = BoundKeys /\ Len(endpoints) = Len(subs))
    /\ [][/\ keys' = keys
          /\ (pubPc' # pubPc \/ sent' # sent) => endpoints' = endpoints
          /\ (endpoints' # endpoints \/ Len(subs') # Len(subs))
                => /\ Len(subs') = Len(subs) + 1
                   /\ subs'[Len(subs')].key \in InboundKeys
                   /\ endpoints'
                         = Append(endpoints,
                                  [kind |-> "subscriber",
                                   key |-> subs'[Len(subs')].key])]_vars

C16_Witness ==
    /\ Len(endpoints) = 3
    /\ endpoints[1].key = joint_state_key
    /\ endpoints[2].key = joint_state_key
    /\ endpoints[3].key = image_key
    /\ Len(sent) = 1
    /\ keys = BoundKeys

\* ------------------------------------------------------------------------
\* Claims about the planner (under PlannerSpec)
\* ------------------------------------------------------------------------
\* C17: the waypoints returned so far, followed by those still queued, are
\* the waypoints added, in the order added; a call on a non-empty planner
\* returns the oldest waypoint not yet returned and removes it, and a call
\* on an empty planner returns None and leaves it empty.
C17_PlannerIsFifo ==
    /\ [](popped \o trajectory = planned)
    /\ [][planned' = planned
            => IF trajectory = << >>
               THEN /\ ~lastStep'.some
                    /\ trajectory' = << >>
                    /\ popped' = popped
               ELSE /\ lastStep'.some
                    /\ lastStep'.val = planned[Len(popped) + 1]
                    /\ Len(popped') = Len(popped) + 1]_vars

C17_Witness ==
    /\ Len(planned) = 3
    /\ planned[1] # planned[2]
    /\ planned[2] # planned[3]
    /\ popped = planned
    /\ trajectory = << >>
    /\ ~lastStep.some

\* ------------------------------------------------------------------------
\* Claims about main (under MainSpec)
\* ------------------------------------------------------------------------
NewFailed == reports # << >> /\ reports[1] = "Failed to initialize communication layer"

\* C14: when CommunicationLayer::new fails, main has returned the error,
\* and no subscriber was declared, no task spawned, nothing planned and
\* nothing published; nothing happens after main has returned.
C14_NewFailureStopsMain ==
    /\ [](NewFailed => /\ mainPc = "returned"
                       /\ mainRet = "Err"
                       /\ ~sessionOpen
                       /\ endpoints = << >>
                       /\ subs = << >>
                       /\ planned = << >>
                       /\ attempts = << >>
                       /\ pubPc = "idle"
                       /\ sent = << >>)
    /\ [][mainPc # "returned"]_vars

C14_Witness ==
    /\ NewFailed
    /\ mainPc = "returned"
    /\ mainRet = "Err"
    /\ Len(reports) = 1

\* ------------------------------------------------------------------------
\* Claims about the control loop (under ControlSpec)
\* ------------------------------------------------------------------------
\* C15: a step in which a publish failure is reported leaves main running,
\* in the loop, with the planner and the subscriptions as they were; every
\* waypoint planned is in the end popped and handed to a publish attempt,
\* whatever failed before it, and every valid payload queued for a
\* subscription is still delivered.
C15_PublishFailureNotFatal ==
    /\ [][Len(reports') > Len(reports)
            => /\ reports'[Len(reports')] = "Failed to publish command"
               /\ mainPc' = "sleep"
               /\ mainRet' = "running"
               /\ trajectory' = trajectory
               /\ subs' = subs
               /\ sessionOpen' = sessionOpen]_vars
    /\ [](mainPc # "returned" /\ mainRet = "running")
    /\ <>[](trajectory = << >> /\ Len(attempts) = Len(planned))
    /\ \A i \in 1..2 : []<>(Len(TaskAt(i).delivered) = ValidQueued(i))

C15_Witness ==
    /\ Len(attempts) = 2
    /\ attempts[1].result = "Err"
    /\ attempts[2].result = "Ok"
    /\ reports = << "Failed to publish command" >>
    /\ \E i \in Tasks : /\ Len(subs[i].delivered) = 1
                         /\ Len(subs[i].received) = 1

\* C18: in every state main's next step is enabled (the loop can take a
\* waypoint and start a publish, a put in progress can complete) and so is
\* the next step of every task that has a sample queued or a callback
\* running; no step of main changes a task and no step of a task changes
\* the publisher; a put in progress completes.
C18_PublishAndTasksDoNotBlock ==
    /\ [](/\ mainPc = "loop" => ENABLED ControlIteration
          /\ mainPc = "put" => ENABLED ControlPutDone
          /\ \A i \in Tasks :
                /\ (subs[i].pc = "Awaiting" /\ subs[i].chan # << >>)
                      => ENABLED Recv(i)
                /\ subs[i].pc = "Dispatch" => ENABLED CallbackReturns(i))
    /\ [][/\ mainPc' # mainPc => subs' = subs
          /\ subs' # subs => UNCHANGED << mainPc, pubPc, pubPayload, sent,
                                          ret, attempts >>]_vars
    /\ (mainPc = "put") ~> (mainPc = "sleep")

C18_Witness ==
    /\ mainPc = "put"
    /\ pubPc = "putting"
    /\ \E i \in Tasks : subs[i].pc = "Dispatch"
    /\ \E j \in Tasks : subs[j].pc = "Terminated"

\* the payloads of the attempts that succeeded, in order
RECURSIVE PutsOf(_)
PutsOf(as) ==
    IF as = << >> THEN << >>
    ELSE IF Head(as).result = "Ok"
         THEN << [key |-> joint_command_key,
                  payload |-> JointCommandPayload(Head(as).command,
                                                  ClockOrdinary)] >>
                 \o PutsOf(Tail(as))
         ELSE PutsOf(Tail(as))

\* C20: the waypoints popped so far are the first of those planned, in
\* order, and each has exactly one publish attempt, as a one-joint command;
\* what reached the transport is the attempts that succeeded, once each;
\* the planner never grows in the loop; with the planner empty a pass of
\* the loop publishes nothing and goes to sleep, and the loop keeps coming
\* back to its top.
C20_OneAttemptPerWaypoint ==
    /\ [](/\ popped \o trajectory = planned
          /\ Len(attempts) = Len(popped)
          /\ \A k \in 1..Len(attempts) :
                /\ attempts[k].command = << popped[k] >>
                /\ attempts[k].result = "pending"
                      => (k = Len(attempts) /\ mainPc = "put")
          /\ sent = PutsOf(attempts))
    /\ [][/\ Len(trajectory') <= Len(trajectory)
          /\ (mainPc = "loop" /\ trajectory = << >> /\ mainPc' # mainPc)
                => /\ mainPc' = "sleep"
                   /\ attempts' = attempts
                   /\ sent' = sent
                   /\ pubPc' = "idle"]_vars
    /\ []<>(mainPc = "loop")

C20_Witness ==
    /\ Len(planned) = 2
    /\ planned[1] # planned[2]
    /\ Len(attempts) = 2
    /\ attempts[1].result = "Err"
    /\ attempts[2].result = "Ok"
    /\ Len(sent) = 1
    /\ trajectory = << >>
    /\ ~lastStep.some
    /\ mainPc = "sleep"

====
